---------------------------- MODULE Spec2Model ----------------------------
(***************************************************************************)
(* A model of the authentication controllers of Authentication-go:         *)
(* RegisterUser, CheckOtp, LoginController and generateOTP of              *)
(* controllers/usercontrollers.go, with the process-wide OTP map `cache`,  *)
(* the users table behind gorm, and the two detached goroutines (the mail  *)
(* sender of RegisterUser and the directory update of CheckOtp).           *)
(*                                                                         *)
(* Go strings that hold an OTP are sequences of decimal digits (0..9);     *)
(* the empty string is << >>.  A response is the sequence of the           *)
(* context.JSON writes made on a gin Context, in order.                    *)
(***************************************************************************)
EXTENDS Integers, Sequences, FiniteSets, Bags, TLC

\* ------------------------------------------------------------- bounds
\* requests started in one behaviour
MaxRequests == 3

\* ---------------------------------------------------- program constants
StatusOK == 200
StatusCreated == 201
StatusBadRequest == 400
StatusUnauthorized == 401
StatusInternalServerError == 500
\* min and max of generateOTP, and the width of its "%05d"
OtpMin == 10000
OtpMax == 99999
OtpWidth == 5

\* --------------------------------------------------------------- inputs
\* the gin Context objects of the pool: two requests run at the same time
Contexts == {"c1", "c2"}
Emails == {"alice", "bob"}
\* the passwords a login submits, and the one a registration sets
Passwords == {"p1", "p2"}
NewPasswords == {"p1"}
\* the outcome of rand.Int when the random source fails
RandFail == -1

VARIABLES
  alive,     \* the server process runs (log.Fatal and runtime throws end it)
  cache,     \* var cache map[string]string: a function on the keys present
  writers,   \* contexts whose assignment to cache is in progress
  users,     \* the users table: a function on the emails that have a row
  pc,        \* where each context's handler stands
  req,       \* the request bound on each context
  loc,       \* the handler's local variables
  resp,      \* the context.JSON writes made on each context
  mailq,     \* mail goroutines started and not yet run (a bag)
  updq,      \* directory-update goroutines started and not yet run (a bag)
  nreq,      \* requests started so far
  expired,   \* history: the validity window of cache[e] has elapsed
  consumed,  \* history: a CheckOtp matched cache[e] since it was assigned
  everMatched, \* history: some CheckOtp submitted the code cached for e
  old,       \* history: the unmatched code the last assignment to cache[e]
             \* replaced by another code ("" when there was none)
  gh,        \* history, per context, of the CheckOtp it runs
  draw,      \* generateOTP alone: the outcome of rand.Int
  otp        \* generateOTP alone: its result

vars == <<alive, cache, writers, users, pc, req, loc, resp, mailq, updq, nreq,
          expired, consumed, everMatched, old, gh, draw, otp>>


\* ---------------------------------------------------------- generateOTP
\* the decimal digits of n >= 0, most significant first
RECURSIVE Digits(_)
Digits(n) ==
  IF n < 10 THEN <<n>> ELSE Append(Digits(n \div 10), n % 10)

\* fmt.Sprintf("%05d", v) for v >= 0: the digits, zero-padded on the left to
\* at least OtpWidth characters
Sprintf05d(v) ==
  LET d == Digits(v)
  IN  IF Len(d) >= OtpWidth THEN d
      ELSE [i \in 1..(OtpWidth - Len(d)) |-> 0] \o d

\* rand.Int(rand.Reader, max - min) returns a value of [0, max - min)
RandRange == 0..(OtpMax - OtpMin - 1)

\* the draws the handlers' model takes from RandRange: both ends of it
RandSamples == {0, OtpMax - OtpMin - 1}

\* generateOTP without line 200's "+ min"
generateOTP_NoMin(r) ==
  IF r = RandFail
    THEN [otp |-> << >>, err |-> TRUE]
    ELSE [otp |-> Sprintf05d(r), err |-> FALSE]

\* generateOTP, given the outcome r of rand.Int: (otp, err)
generateOTP(r) ==
  IF r = RandFail
    THEN [otp |-> << >>, err |-> TRUE]
    ELSE [otp |-> Sprintf05d(r + OtpMin), err |-> FALSE]

\* the number a digit string denotes
RECURSIVE Atoi(_)
Atoi(s) ==
  IF Len(s) = 0 THEN 0
  ELSE 10 * Atoi(SubSeq(s, 1, Len(s) - 1)) + s[Len(s)]

\* ------------------------------------------------------- collaborators
\* models.User.HashPassword: the stored form of a password
HashPassword(pw) == "hash." \o pw

\* models.User.CheckPassword: an error unless the password hashes to the
\* stored hash
CheckPassword(user, pw) == user.Password # HashPassword(pw)

\* authorization.GenerateJWT: a token whose subject is the email
GenerateJWT(email) == "jwt." \o email

\* one context.JSON(status, gin.H{key: value}) call
JSON(status, key, value) == [status |-> status, key |-> key, value |-> value]

\* the OTP strings a client submits: the two the model issues (where only
\* one of them was issued, the other is a wrong code)
SubmittedOtps == {generateOTP(r).otp : r \in RandSamples}

\* a request struct at its zero value: what ShouldBindJSON leaves when it fails
NoRequest == [op |-> "none", email |-> "", password |-> "", otp |-> << >>]
NoLocals ==
  [value |-> << >>, otp |-> << >>, otpErr |-> FALSE, recordErr |-> FALSE,
   credErr |-> FALSE, jwtErr |-> FALSE]
NoHistory ==
  [conc |-> {}, stale |-> FALSE, old |-> << >>, afterMatch |-> FALSE,
   expired |-> FALSE, registered |-> FALSE]

\* cache[email] of Go: the zero value "" for a key that is absent
CacheGet(e) == IF e \in DOMAIN cache THEN cache[e] ELSE << >>

\* m[k] = v on a Go map
MapSet(m, k, v) == [x \in DOMAIN m \cup {k} |-> IF x = k THEN v ELSE m[x]]

\* a context takes a new request: the router hands it a Context of the pool
CanStart(p) == alive /\ pc[p] \in {"idle", "done"} /\ nreq < MaxRequests

\* the handler on p returns at once, with the writes w as its response and
\* the locals l
Return(p, rq, w, l) ==
  /\ pc' = [pc EXCEPT ![p] = "done"]
  /\ req' = [req EXCEPT ![p] = rq]
  /\ resp' = [resp EXCEPT ![p] = w]
  /\ loc' = [loc EXCEPT ![p] = l]
  /\ nreq' = nreq + 1

Finish(p, rq, w) == Return(p, rq, w, NoLocals)

\* the handler on p goes on to the step at, with the locals l
Proceed(p, rq, at, l) ==
  /\ pc' = [pc EXCEPT ![p] = at]
  /\ req' = [req EXCEPT ![p] = rq]
  /\ resp' = [resp EXCEPT ![p] = << >>]
  /\ loc' = [loc EXCEPT ![p] = l]
  /\ nreq' = nreq + 1

\* the history when p takes a new request with history h: the request p
\* served before is no longer one that ran beside the others'
NewHistory(p, h) ==
  [q \in Contexts |-> IF q = p THEN h ELSE [gh[q] EXCEPT !.conc = @ \ {p}]]

\* the runtime's fatal "concurrent map read and map write" / "concurrent map
\* writes": the process ends
Throw ==
  /\ alive' = FALSE
  /\ UNCHANGED <<cache, writers, users, pc, req, loc, resp, mailq, updq, nreq,
                 expired, consumed, everMatched, old, gh, draw, otp>>

\* ------------------------------------------------------- Init
Init ==
  /\ alive = TRUE
  /\ cache = << >>
  /\ writers = {}
  /\ users = << >>
  /\ pc = [p \in Contexts |-> "idle"]
  /\ req = [p \in Contexts |-> NoRequest]
  /\ loc = [p \in Contexts |-> NoLocals]
  /\ resp = [p \in Contexts |-> << >>]
  /\ mailq = EmptyBag
  /\ updq = EmptyBag
  /\ nreq = 0
  /\ expired = [e \in Emails |-> FALSE]
  /\ consumed = [e \in Emails |-> FALSE]
  /\ everMatched = [e \in Emails |-> FALSE]
  /\ old = [e \in Emails |-> << >>]
  /\ gh = [p \in Contexts |-> NoHistory]
  /\ draw = RandFail
  /\ otp = [done |-> FALSE, otp |-> << >>, err |-> FALSE]

\* ------------------------------------------------------- RegisterUser
\* lines 43-54: bind the body, hash the password, DB.Create(&user); the
\* email is unique in the table (models.User, as the data model describes
\* it), and the insert may fail for other reasons
RegisterUser_Create(p) ==
  /\ CanStart(p)
  /\ \/ /\ Finish(p, [NoRequest EXCEPT !.op = "register"],
                  <<JSON(StatusBadRequest, "error", "bind")>>)
        /\ users' = users
     \/ \E e \in Emails, pw \in NewPasswords :
          /\ Finish(p, [op |-> "register", email |-> e, password |-> pw,
                        otp |-> << >>],
                    <<JSON(StatusInternalServerError, "error", "hash")>>)
          /\ users' = users
     \/ \E e \in Emails, pw \in NewPasswords, dbOk \in BOOLEAN :
          LET created == dbOk /\ e \notin DOMAIN users
          IN  /\ Proceed(p, [op |-> "register", email |-> e, password |-> pw,
                             otp |-> << >>],
                         "reg_generate",
                         [NoLocals EXCEPT !.recordErr = ~created])
              /\ users' =
                   IF created
                     THEN MapSet(users, e,
                            [Email |-> e, Password |-> HashPassword(pw),
                             IsVerified |-> FALSE])
                     ELSE users
  /\ gh' = NewHistory(p, NoHistory)
  /\ UNCHANGED <<alive, cache, writers, mailq, updq, expired, consumed,
                 everMatched, old, draw, otp>>

\* lines 67-68: otp, err := generateOTP(), and the assignment
\* cache[user.Email] = otp begins; the map has no lock, and the runtime may
\* throw when another assignment is in progress
RegisterUser_Generate(p) ==
  /\ alive /\ pc[p] = "reg_generate"
  /\ \/ \E r \in RandSamples \cup {RandFail} :
          LET g == generateOTP(r)
          IN  /\ loc' = [loc EXCEPT ![p].otp = g.otp, ![p].otpErr = g.err]
              /\ writers' = writers \cup {p}
              /\ pc' = [pc EXCEPT ![p] = "reg_storing"]
              /\ UNCHANGED <<alive, cache, users, req, resp, mailq, updq, nreq,
                             expired, consumed, everMatched, old, gh, draw,
                             otp>>
     \/ writers # {} /\ Throw

\* the assignment of p inserts a new key while another goroutine's assignment
\* that inserts another new key is in progress: the two writers of the map
\* (line 18, no lock) may take the same free slot
RacingInsert(p) ==
  /\ req[p].email \notin DOMAIN cache
  /\ \E q \in writers \ {p} :
       req[q].email \notin DOMAIN cache \cup {req[p].email}

\* line 68 completes: cache[user.Email] = otp; an insert that races with
\* another takes effect or is lost (when the runtime did not throw); lines
\* 70-72: log.Fatal when generateOTP returned an error
RegisterUser_Store(p) ==
  /\ alive /\ pc[p] = "reg_storing"
  /\ LET e == req[p].email
     IN  \/ /\ cache' = MapSet(cache, e, loc[p].otp)
            /\ expired' = [expired EXCEPT ![e] = FALSE]
            /\ consumed' = [consumed EXCEPT ![e] = FALSE]
            /\ old' = [old EXCEPT ![e] =
                         IF consumed[e] \/ CacheGet(e) = loc[p].otp
                           THEN << >> ELSE CacheGet(e)]
            /\ gh' = [q \in Contexts |->
                        IF req[q].op = "otp" /\ req[q].email = e
                           /\ pc[q] \in {"otp_compare", "otp_ack"}
                          THEN [gh[q] EXCEPT !.stale = TRUE]
                          ELSE gh[q]]
         \/ /\ RacingInsert(p)
            /\ UNCHANGED <<cache, expired, consumed, old, gh>>
  /\ writers' = writers \ {p}
  /\ IF loc[p].otpErr
       THEN alive' = FALSE /\ pc' = pc
       ELSE alive' = alive /\ pc' = [pc EXCEPT ![p] = "reg_respond"]
  /\ UNCHANGED <<users, req, loc, resp, mailq, updq, nreq, everMatched, draw,
                 otp>>

\* lines 73-90: the message is built, the mail goroutine started, and the
\* response written by record.Error
RegisterUser_Respond(p) ==
  /\ alive /\ pc[p] = "reg_respond"
  /\ mailq' = mailq (+) SetToBag({[to |-> req[p].email, otp |-> loc[p].otp]})
  /\ resp' = [resp EXCEPT ![p] = Append(@,
                IF loc[p].recordErr
                  THEN JSON(StatusInternalServerError, "error", "db")
                  ELSE JSON(StatusCreated, "userId,email", req[p].email))]
  /\ pc' = [pc EXCEPT ![p] = "done"]
  /\ loc' = [loc EXCEPT ![p] = NoLocals]
  /\ UNCHANGED <<alive, cache, writers, users, req, updq, nreq, expired,
                 consumed, everMatched, old, gh, draw, otp>>

\* the mail goroutine, were a failed smtp.SendMail to take the cache entry of
\* its addressee back
SendMail_ErrUndoes ==
  /\ alive
  /\ \E m \in BagToSet(mailq), err \in BOOLEAN :
       /\ mailq' = mailq (-) SetToBag({m})
       /\ cache' = IF err THEN [x \in DOMAIN cache \ {m.to} |-> cache[x]]
                   ELSE cache
  /\ UNCHANGED <<alive, writers, users, pc, req, loc, resp, updq, nreq,
                 expired, consumed, everMatched, old, gh, draw, otp>>

\* lines 76-81, the goroutine: smtp.SendMail returns err; when err != nil it
\* is printed by log.Println (line 79), which touches nothing of the
\* program's state, and either way the goroutine ends
SendMail ==
  /\ alive
  /\ \E m \in BagToSet(mailq), err \in BOOLEAN :
       /\ mailq' = mailq (-) SetToBag({m})
       /\ cache' = cache
  /\ UNCHANGED <<alive, writers, users, pc, req, loc, resp, updq, nreq,
                 expired, consumed, everMatched, old, gh, draw, otp>>

\* ----------------------------------------------------------- CheckOtp
\* the contexts whose CheckOtp has read the cache and not yet returned
VerifyingNow == {q \in Contexts : pc[q] \in {"otp_compare", "otp_ack"}}

\* CheckOtp's first step without the return of line 123: it goes on to the
\* comparison whether or not the key is in cache
CheckOtp_Lookup_NoReturn(p) ==
  /\ CanStart(p)
  /\ \/ /\ Finish(p, [NoRequest EXCEPT !.op = "otp"],
                  <<JSON(StatusBadRequest, "error", "bind")>>)
        /\ gh' = NewHistory(p, NoHistory)
        /\ UNCHANGED <<alive, cache, writers, users, mailq, updq, expired,
                       consumed, everMatched, old, draw, otp>>
     \/ \E e \in Emails, code \in SubmittedOtps :
          LET rq == [op |-> "otp", email |-> e, password |-> "", otp |-> code]
              value == CacheGet(e)
              h == [conc |-> VerifyingNow \ {p}, stale |-> FALSE,
                    old |-> old[e], afterMatch |-> consumed[e],
                    expired |-> expired[e], registered |-> e \in DOMAIN users]
          IN  /\ Proceed(p, rq, "otp_compare",
                         [NoLocals EXCEPT !.value = value])
              /\ gh' = [q \in Contexts |->
                          IF q = p THEN h
                          ELSE IF q \in VerifyingNow
                            THEN [gh[q] EXCEPT !.conc = @ \cup {p}]
                          ELSE [gh[q] EXCEPT !.conc = @ \ {p}]]
              /\ everMatched' =
                   [everMatched EXCEPT ![e] = @ \/ (value = code)]
              /\ UNCHANGED <<alive, cache, writers, users, mailq, updq,
                             expired, consumed, old, draw, otp>>
     \/ writers # {} /\ Throw

\* lines 112-124: bind the body, then value, exists := cache[otp.Email];
\* the read may throw when an assignment to the map is in progress
CheckOtp_Lookup(p) ==
  /\ CanStart(p)
  /\ \/ /\ Finish(p, [NoRequest EXCEPT !.op = "otp"],
                  <<JSON(StatusBadRequest, "error", "bind")>>)
        /\ gh' = NewHistory(p, NoHistory)
        /\ UNCHANGED <<alive, cache, writers, users, mailq, updq, expired,
                       consumed, everMatched, old, draw, otp>>
     \/ \E e \in Emails, code \in SubmittedOtps :
          LET rq == [op |-> "otp", email |-> e, password |-> "", otp |-> code]
              exists == e \in DOMAIN cache
              value == CacheGet(e)
              h == [conc |-> VerifyingNow \ {p}, stale |-> FALSE,
                    old |-> old[e], afterMatch |-> consumed[e],
                    expired |-> expired[e], registered |-> e \in DOMAIN users]
          IN  /\ IF ~exists
                   THEN /\ Finish(p, rq, <<JSON(StatusUnauthorized, "error",
                                                "invalid credentials")>>)
                        /\ gh' = NewHistory(p, [h EXCEPT !.conc = {}])
                        /\ everMatched' = everMatched
                   ELSE /\ Proceed(p, rq, "otp_compare",
                               [NoLocals EXCEPT !.value = value])
                        /\ gh' = [q \in Contexts |->
                                    IF q = p THEN h
                                    ELSE IF q \in VerifyingNow
                                      THEN [gh[q] EXCEPT !.conc = @ \cup {p}]
                                    ELSE [gh[q] EXCEPT !.conc = @ \ {p}]]
                        /\ everMatched' =
                             [everMatched EXCEPT ![e] = @ \/ (value = code)]
              /\ UNCHANGED <<alive, cache, writers, users, mailq, updq,
                             expired, consumed, old, draw, otp>>
     \/ writers # {} /\ Throw

\* lines 126-138, were a mismatch to delete the entry it was compared with
CheckOtp_Compare_Consumes(p) ==
  /\ alive /\ pc[p] = "otp_compare"
  /\ resp' = [resp EXCEPT ![p] =
                IF loc[p].value # req[p].otp
                  THEN Append(@, JSON(StatusBadRequest, "error",
                                      "Please Enter Valid OTP"))
                  ELSE @]
  /\ cache' = IF loc[p].value # req[p].otp
                THEN [x \in DOMAIN cache \ {req[p].email} |-> cache[x]]
                ELSE cache
  /\ updq' = updq (+) SetToBag({[ctx |-> p, email |-> req[p].email]})
  /\ pc' = [pc EXCEPT ![p] = "otp_ack"]
  /\ UNCHANGED <<alive, writers, users, req, loc, mailq, nreq, expired,
                 consumed, everMatched, old, gh, draw, otp>>

\* lines 126-138: the mismatch error is written, with no return after it, and
\* the goroutine that updates the directory is started; cache is not
\* assigned to
CheckOtp_Compare(p) ==
  /\ alive /\ pc[p] = "otp_compare"
  /\ resp' = [resp EXCEPT ![p] =
                IF loc[p].value # req[p].otp
                  THEN Append(@, JSON(StatusBadRequest, "error",
                                      "Please Enter Valid OTP"))
                  ELSE @]
  /\ cache' = cache
  /\ updq' = updq (+) SetToBag({[ctx |-> p, email |-> req[p].email]})
  /\ pc' = [pc EXCEPT ![p] = "otp_ack"]
  /\ UNCHANGED <<alive, writers, users, req, loc, mailq, nreq, expired,
                 consumed, everMatched, old, gh, draw, otp>>

\* line 140: the acknowledgment, and the handler returns
CheckOtp_Ack(p) ==
  /\ alive /\ pc[p] = "otp_ack"
  /\ resp' = [resp EXCEPT ![p] =
                Append(@, JSON(StatusOK, "message", "OTP Verified"))]
  /\ pc' = [pc EXCEPT ![p] = "done"]
  /\ loc' = [loc EXCEPT ![p] = NoLocals]
  /\ consumed' = [consumed EXCEPT ![req[p].email] =
                    @ \/ (loc[p].value = req[p].otp /\ ~gh[p].stale)]
  /\ UNCHANGED <<alive, cache, writers, users, req, mailq, updq, nreq, expired,
                 everMatched, old, gh, draw, otp>>

\* the update goroutine, were its UPDATE to have no WHERE clause: every row
\* is set
UpdateTask_NoWhere(t, ok) ==
  /\ alive
  /\ t \in BagToSet(updq)
  /\ updq' = updq (-) SetToBag({t})
  /\ IF ok
       THEN /\ users' = [e \in DOMAIN users |->
                           [users[e] EXCEPT !.IsVerified = TRUE]]
            /\ resp' = resp
       ELSE /\ users' = users
            /\ resp' = [resp EXCEPT ![t.ctx] = Append(@,
                          JSON(StatusInternalServerError, "error", "db"))]
  /\ UNCHANGED <<alive, cache, writers, pc, req, loc, mailq, nreq, expired,
                 consumed, everMatched, old, gh, draw, otp>>

\* lines 130-138, the goroutine t: UPDATE users SET is_verified = true WHERE
\* email = ?; ok is its outcome, and on an error it writes to the Context it
\* captured
UpdateTask(t, ok) ==
  /\ alive
  /\ t \in BagToSet(updq)
  /\ updq' = updq (-) SetToBag({t})
  /\ IF ok
       THEN /\ users' = IF t.email \in DOMAIN users
                          THEN [users EXCEPT ![t.email].IsVerified = TRUE]
                          ELSE users
            /\ resp' = resp
       ELSE /\ users' = users
            /\ resp' = [resp EXCEPT ![t.ctx] = Append(@,
                          JSON(StatusInternalServerError, "error", "db"))]
  /\ UNCHANGED <<alive, cache, writers, pc, req, loc, mailq, nreq, expired,
                 consumed, everMatched, old, gh, draw, otp>>

UpdateTasks == [ctx : Contexts, email : Emails]

MarkVerified == \E t \in UpdateTasks, ok \in BOOLEAN : UpdateTask(t, ok)

\* ---------------------------------------------------- LoginController
\* LoginWrites without the return of line 176: the token follows the 401
LoginWrites_NoReturn(e, found, credErr, jwtErr) ==
  IF ~found
    THEN <<JSON(StatusInternalServerError, "error", "record not found")>>
  ELSE (IF credErr
          THEN <<JSON(StatusUnauthorized, "error", "invalid credentials")>>
          ELSE << >>)
       \o (IF jwtErr
             THEN <<JSON(StatusInternalServerError, "error", "jwt")>>
             ELSE <<JSON(StatusOK, "token", GenerateJWT(e))>>)

\* lines 167-184: what the handler writes, given record.Error == nil (found),
\* credentialError != nil (credErr) and err != nil of GenerateJWT (jwtErr)
LoginWrites(e, found, credErr, jwtErr) ==
  IF ~found
    THEN <<JSON(StatusInternalServerError, "error", "record not found")>>
  ELSE IF credErr
    THEN <<JSON(StatusUnauthorized, "error", "invalid credentials")>>
  ELSE IF jwtErr
    THEN <<JSON(StatusInternalServerError, "error", "jwt")>>
  ELSE <<JSON(StatusOK, "token", GenerateJWT(e))>>

\* lines 157-185, the whole handler: it reads the users table once and
\* writes nothing shared
LoginController(p) ==
  /\ CanStart(p)
  /\ \/ Finish(p, [NoRequest EXCEPT !.op = "login"],
               <<JSON(StatusBadRequest, "error", "bind")>>)
     \/ \E e \in Emails, pw \in Passwords, fault \in {"none", "db", "jwt"} :
          LET found == fault # "db" /\ e \in DOMAIN users
              credErr == found /\ CheckPassword(users[e], pw)
              jwtErr == found /\ ~credErr /\ fault = "jwt"
          IN  Return(p, [op |-> "login", email |-> e, password |-> pw,
                         otp |-> << >>],
                     LoginWrites(e, found, credErr, jwtErr),
                     [NoLocals EXCEPT !.recordErr = ~found,
                                      !.credErr = credErr,
                                      !.jwtErr = jwtErr])
  /\ gh' = NewHistory(p, NoHistory)
  /\ UNCHANGED <<alive, cache, writers, users, mailq, updq, expired, consumed,
                 everMatched, old, draw, otp>>

\* ---------------------------------------------------------------- time
\* time passes: the validity window of the entry cached for e elapses (the
\* code keeps no time with an entry and never looks at a clock)
Elapse ==
  /\ alive
  /\ \E e \in DOMAIN cache :
       /\ ~expired[e]
       /\ expired' = [expired EXCEPT ![e] = TRUE]
  /\ UNCHANGED <<alive, cache, writers, users, pc, req, loc, resp, mailq, updq,
                 nreq, consumed, everMatched, old, gh, draw, otp>>

\* ------------------------------------------------------ specifications
Next ==
  \/ \E p \in Contexts : RegisterUser_Create(p)
  \/ \E p \in Contexts : RegisterUser_Generate(p)
  \/ \E p \in Contexts : RegisterUser_Store(p)
  \/ \E p \in Contexts : RegisterUser_Respond(p)
  \/ SendMail
  \/ \E p \in Contexts : CheckOtp_Lookup(p)
  \/ \E p \in Contexts : CheckOtp_Compare(p)
  \/ \E p \in Contexts : CheckOtp_Ack(p)
  \/ MarkVerified
  \/ \E p \in Contexts : LoginController(p)

\* the handlers and their goroutines
Spec == Init /\ [][Next]_vars

NextTime == Next \/ Elapse

\* the same, with the passing of time
SpecTime == Init /\ [][NextTime]_vars

\* the goroutine whose UPDATE succeeds
MarkVerifiedOk == \E t \in UpdateTasks : UpdateTask(t, TRUE)

\* what a handler that has started does next
HandlerStep(p) ==
  \/ RegisterUser_Generate(p)
  \/ RegisterUser_Store(p)
  \/ RegisterUser_Respond(p)
  \/ CheckOtp_Compare(p)
  \/ CheckOtp_Ack(p)

NextFair ==
  \/ \E p \in Contexts : RegisterUser_Create(p)
  \/ \E p \in Contexts : HandlerStep(p)
  \/ SendMail
  \/ \E p \in Contexts : CheckOtp_Lookup(p)
  \/ MarkVerifiedOk
  \/ \E p \in Contexts : LoginController(p)

\* the handlers and their goroutines where no UPDATE of the update goroutine
\* fails, under the Go scheduler: a goroutine that can run does run, be it a
\* handler past its first step, a mail goroutine or an update goroutine
\* (requests arrive as the clients please)
SpecFair ==
  /\ Init
  /\ [][NextFair]_vars
  /\ WF_vars(MarkVerifiedOk)
  /\ WF_vars(SendMail)
  /\ \A p \in Contexts : WF_vars(HandlerStep(p))

\* generateOTP alone: one call on every outcome of rand.Int
InitOTP ==
  /\ alive = TRUE
  /\ cache = << >>
  /\ writers = {}
  /\ users = << >>
  /\ pc = [p \in Contexts |-> "idle"]
  /\ req = [p \in Contexts |-> NoRequest]
  /\ loc = [p \in Contexts |-> NoLocals]
  /\ resp = [p \in Contexts |-> << >>]
  /\ mailq = EmptyBag
  /\ updq = EmptyBag
  /\ nreq = 0
  /\ expired = [e \in Emails |-> FALSE]
  /\ consumed = [e \in Emails |-> FALSE]
  /\ everMatched = [e \in Emails |-> FALSE]
  /\ old = [e \in Emails |-> << >>]
  /\ gh = [p \in Contexts |-> NoHistory]
  /\ draw \in RandRange \cup {RandFail}
  /\ otp = [done |-> FALSE, otp |-> << >>, err |-> FALSE]

GenerateOTPCall ==
  /\ ~otp.done
  /\ otp' = [done |-> TRUE, otp |-> generateOTP(draw).otp,
             err |-> generateOTP(draw).err]
  /\ UNCHANGED <<alive, cache, writers, users, pc, req, loc, resp, mailq, updq,
                 nreq, expired, consumed, everMatched, old, gh, draw>>

NextOTP == GenerateOTPCall

SpecOTP == InitOTP /\ [][NextOTP]_vars

\* ------------------------------------------------- reading a response
AckWrite == JSON(StatusOK, "message", "OTP Verified")
MismatchWrite == JSON(StatusBadRequest, "error", "Please Enter Valid OTP")
NotFoundWrite == JSON(StatusUnauthorized, "error", "invalid credentials")

Has(w, x) == \E i \in 1..Len(w) : w[i] = x
HasToken(w) == \E i \in 1..Len(w) : w[i].key = "token"

\* the results of a CheckOtp, read off its response: Matched is the
\* acknowledgment "OTP Verified"
ReportsMatched(w) == Has(w, AckWrite)
ReportsMismatch(w) == Has(w, MismatchWrite)
ReportsNotFound(w) == Len(w) > 0 /\ w[1] = NotFoundWrite /\ ~Has(w, AckWrite)

BindWrite == JSON(StatusBadRequest, "error", "bind")

\* the contexts whose CheckOtp, or LoginController, has returned, with a body
\* that could be bound
Verified == {p \in Contexts : req[p].op = "otp" /\ pc[p] = "done"
                              /\ ~Has(resp[p], BindWrite)}
LoggedIn == {p \in Contexts : req[p].op = "login" /\ pc[p] = "done"
                              /\ ~Has(resp[p], BindWrite)}

\* ---------------------------------------------------------------- claims
\* C1: a CheckOtp that starts after an earlier CheckOtp matched the code
\* cached for its email, with no assignment to that cache entry in between,
\* reports NotFound.
C1_SecondVerifyNotFound ==
  \A p \in Verified : gh[p].afterMatch => ReportsNotFound(resp[p])

\* C2: of two CheckOtp calls that ran at the same time with the same code for
\* the same email, the code being the cached one, at most one reports Matched.
C2_OneConcurrentMatch ==
  \A p, q \in Verified :
    (/\ p # q
     /\ q \in gh[p].conc
     /\ req[p].email = req[q].email
     /\ req[p].otp = req[q].otp
     /\ ~ReportsMismatch(resp[p]) /\ ~ReportsMismatch(resp[q]))
    => ~(ReportsMatched(resp[p]) /\ ReportsMatched(resp[q]))

\* C3: the verified flag of an identity is true only if some CheckOtp for
\* that email submitted the code cached for it at that moment, and the flag
\* never goes back from true to false.
C3_VerifiedOnlyAfterMatch ==
  /\ [](\A e \in DOMAIN users : users[e].IsVerified => everMatched[e])
  /\ [][\A e \in DOMAIN users :
          users[e].IsVerified => users'[e].IsVerified]_vars

\* C4: a CheckOtp whose code differs from the cached one reports the
\* mismatch error and nothing else: no "OTP Verified" on that request.
C4_MismatchOnly ==
  \A p \in Verified :
    ReportsMismatch(resp[p])
      => resp[p][1] = MismatchWrite /\ ~ReportsMatched(resp[p])

\* C5: a CheckOtp that submits the code a later RegisterUser replaced by
\* another one never reports Matched.
C5_OldCodeNeverMatches ==
  \A p \in Verified :
    (gh[p].old # << >> /\ req[p].otp = gh[p].old)
      => ~ReportsMatched(resp[p])

\* C6: a CheckOtp that reads an entry whose validity window has elapsed
\* reports NotFound, never Matched.
C6_ExpiredNeverMatches ==
  \A p \in Verified : gh[p].expired => ReportsNotFound(resp[p])

\* C7: LoginController returns a token only for an identity whose verified
\* flag is true (the flag is never reset, so it was false at the login if it
\* is false now).
C7_TokenOnlyWhenVerified ==
  \A p \in LoggedIn :
    HasToken(resp[p])
      => req[p].email \in DOMAIN users /\ users[req[p].email].IsVerified

\* C8: LoginController returns a token only when the lookup and the password
\* check succeeded; a wrong password ends in 401 with no token, and a token
\* error in 500 with no token.
C8_TokenOnlyWithCredentials ==
  \A p \in LoggedIn :
    LET e == req[p].email
        w == resp[p]
    IN  /\ HasToken(w) =>
             /\ e \in DOMAIN users
             /\ users[e].Password = HashPassword(req[p].password)
             /\ ~loc[p].recordErr /\ ~loc[p].credErr /\ ~loc[p].jwtErr
             /\ w[1] = JSON(StatusOK, "token", GenerateJWT(e))
        /\ loc[p].credErr =>
             /\ users[e].Password # HashPassword(req[p].password)
             /\ w[1] = NotFoundWrite
             /\ ~HasToken(w)
        /\ (e \in DOMAIN users /\ ~loc[p].recordErr
            /\ users[e].Password # HashPassword(req[p].password)) =>
             w[1] = NotFoundWrite /\ ~HasToken(w)
        /\ loc[p].jwtErr =>
             w[1].status = StatusInternalServerError /\ ~HasToken(w)

\* one login got its token and another, with a wrong password, did not
C8_Witness ==
  \E p, q \in LoggedIn : HasToken(resp[p]) /\ loc[q].credErr

C10_WholeRange ==
  otp.done =>
    {Atoi(generateOTP(r).otp) : r \in RandRange} = OtpMin..OtpMax

\* C11: when DB.Create failed in RegisterUser (and generateOTP did not), the
\* rest of the handler neither assigns to cache nor starts a mail goroutine:
\* cache and the mails under way are as they were.
C11_CreateFailureStops ==
  [][\A p \in Contexts :
       (loc[p].recordErr /\ ~loc[p].otpErr
        /\ (RegisterUser_Store(p) \/ RegisterUser_Respond(p)))
         => (cache' = cache /\ mailq' = mailq)]_vars

\* C12: a login for an email that has no row and a login with a wrong
\* password for an email that has one get the same response, status and
\* body (rows are never deleted: an email with no row now had none at the
\* login).
C12_LoginFailuresAlike ==
  \A p, q \in LoggedIn :
    (/\ req[p].email \notin DOMAIN users
     /\ loc[q].credErr)
    => resp[p] = resp[q]

\* the contexts whose RegisterUser has returned after its DB.Create
CreatedWrite(e) == JSON(StatusCreated, "userId,email", e)
Registered ==
  {p \in Contexts : req[p].op = "register" /\ pc[p] = "done"
                    /\ req[p].email \in Emails
                    /\ ~Has(resp[p], JSON(StatusInternalServerError,
                                          "error", "hash"))}

\* C13: a step of the mail goroutine, whether smtp.SendMail delivers or
\* fails, leaves every response, the users table and cache as they were: the
\* response RegisterUser wrote when it started the goroutine is the response
\* after the goroutine has run, on either outcome.
C13_SendIsFireAndForget ==
  [][SendMail => (resp' = resp /\ users' = users /\ cache' = cache)]_vars

\* a RegisterUser has answered 201 and the mail goroutines started so far
\* have all run
C13_Witness ==
  \E p \in Registered :
    resp[p] = <<CreatedWrite(req[p].email)>> /\ mailq = EmptyBag

\* C14: a step of the goroutine CheckOtp starts to update the users table
\* writes to no response, whether its UPDATE succeeds or fails.
C14_UpdateTaskNeverWrites ==
  [][MarkVerified => resp' = resp]_vars

\* C15: no step of CheckOtp assigns to cache, so after a CheckOtp with a code
\* other than the cached one the entry is there with the same code; and a
\* CheckOtp that, after such a mismatch for its email, submits the cached
\* code reports Matched when it returns.
C15_MismatchKeepsChallenge ==
  [][\A p \in Contexts :
       /\ (CheckOtp_Lookup(p) \/ CheckOtp_Compare(p) \/ CheckOtp_Ack(p))
            => cache' = cache
       /\ (/\ CheckOtp_Ack(p)
           /\ loc[p].value = req[p].otp
           /\ \E q \in Verified \ gh[p].conc :
                /\ q # p
                /\ req[q].email = req[p].email
                /\ ReportsMismatch(resp[q]))
            => (ReportsMatched(resp'[p]) /\ ~ReportsMismatch(resp'[p]))]_vars

\* a CheckOtp with a wrong code reported the mismatch while the entry had not
\* been matched, the entry is still cached with its code, and another
\* CheckOtp, not at the same time, submitted that code and reported Matched
C15_Witness ==
  \E p, q \in Verified :
    /\ p # q /\ q \notin gh[p].conc /\ p \notin gh[q].conc
    /\ req[q].email = req[p].email
    /\ ReportsMismatch(resp[q]) /\ ~gh[q].afterMatch
    /\ req[q].otp # CacheGet(req[q].email)
    /\ req[p].otp = CacheGet(req[p].email)
    /\ ReportsMatched(resp[p]) /\ ~ReportsMismatch(resp[p])
    /\ consumed[req[p].email]

\* a CheckOtp for e, which had a row when the handler read cache, has
\* reported Matched and no mismatch
Matched(e) ==
  \E p \in Verified :
    /\ req[p].email = e
    /\ gh[p].registered
    /\ ReportsMatched(resp[p]) /\ ~ReportsMismatch(resp[p])

\* the row of e has is_verified set
IsVerified(e) == e \in DOMAIN users /\ users[e].IsVerified

\* C16: whenever a CheckOtp has reported Matched for an email that has a
\* row, the row's IsVerified is true then or later.
C16_MatchedLeadsToVerified ==
  \A e \in Emails : Matched(e) ~> IsVerified(e)

\* C17: a CheckOtp for an email that is not a key of cache answers with the
\* one write 401 "invalid credentials" and returns: it starts no update
\* goroutine and leaves cache and the users table as they were.
C17_NotFoundDoesNothing ==
  [][\A p \in Contexts :
       (/\ CheckOtp_Lookup(p)
        /\ nreq' = nreq + 1
        /\ req'[p].email \in Emails
        /\ req'[p].email \notin DOMAIN cache)
       => /\ resp'[p] = <<NotFoundWrite>>
          /\ pc'[p] = "done"
          /\ updq' = updq /\ cache' = cache /\ users' = users]_vars

\* a CheckOtp for an email that never was a key of cache has returned
\* NotFound, another email having an entry
C17_Witness ==
  \E p \in Verified :
    /\ req[p].email \notin DOMAIN cache
    /\ resp[p] = <<NotFoundWrite>>
    /\ DOMAIN cache # {}

\* C18: when generateOTP returned an error, RegisterUser assigns nothing to
\* cache, in particular not the empty string, and starts no mail goroutine.
C18_EntropyFailureInstallsNothing ==
  [][\A p \in Contexts :
       (loc[p].otpErr /\ RegisterUser_Store(p))
         => /\ cache' = cache
            /\ mailq' = mailq
            /\ \A e \in DOMAIN cache' : cache'[e] # << >>]_vars

\* the mail the goroutine RegisterUser starts on p carries
Mail(p) == [to |-> req[p].email, otp |-> loc[p].otp]

\* C19: cache holds one code for an email (it is a map), and the code held
\* for an email is the one of the last RegisterUser that assigned it: the
\* assignment stores the code generateOTP returned to that handler over
\* whatever was there and leaves the other emails' entries alone, no other
\* step changes cache, and the mail the handler then starts carries the code
\* it stored -- also when RegisterUser runs on two contexts at once (the
\* handler whose generateOTP failed is the matter of C18).
C19_StoredCodeIsLastIssued ==
  [][/\ \A p \in Contexts :
          /\ (RegisterUser_Store(p) /\ ~loc[p].otpErr) =>
               /\ DOMAIN cache' = DOMAIN cache \cup {req[p].email}
               /\ cache'[req[p].email] = loc[p].otp
               /\ \A e \in DOMAIN cache \ {req[p].email} : cache'[e] = cache[e]
          /\ RegisterUser_Respond(p) =>
               mailq' = mailq (+) SetToBag({Mail(p)})
     /\ cache' # cache => \E p \in Contexts : RegisterUser_Store(p)]_vars

\* the cache entry and the is_verified of b are the same before and after a
\* step
Untouched(b) ==
  /\ (b \in DOMAIN cache') = (b \in DOMAIN cache)
  /\ CacheGet(b)' = CacheGet(b)
  /\ IsVerified(b)' = IsVerified(b)

==========================================================================
